---------------------------- MODULE Spec2Model ----------------------------
(***************************************************************************)
(* Model of the Validation engine of src/validation.py: an engine built    *)
(* with optional reference shot / video lists, whose __call__ loads a      *)
(* submission, runs the submission checks, then (when an evidence source   *)
(* is given) loads the evidence and runs the evidence checks, raising      *)
(* ValueError on the first violated check and returning True otherwise.    *)
(*                                                                         *)
(* Datasets are the typed rows pandas yields; a float32 cell is either a   *)
(* finite number, an infinity or NaN.                                      *)
(***************************************************************************)
EXTENDS Integers, Sequences, FiniteSets

\* Largest number of rows of a loaded dataset explored by the model.
MaxRows == 2

(***************************************************************************)
(* Python values                                                           *)
(***************************************************************************)
\* Python's None (the default of shots, videos and fp_evidence).
None == "None"

\* Truth value of an optional path / file argument: `if self.shots:`.
Truthy(x) == x \notin {None, ""}

\* float32 cells: finite numbers, +/- infinity and NaN.
Fin(n) == [k |-> "fin", v |-> n]
NaN == [k |-> "nan", v |-> 0]
PosInf == [k |-> "inf", v |-> 1]
NegInf == [k |-> "inf", v |-> -1]

\* np.isnan taken for the finiteness test: infinities pass.
isfinite_only_rejects_nan(x) == x.k # "nan"

\* np.isfinite
isfinite(x) == x.k = "fin"

\* IEEE comparison `x < 0.`: false for NaN, true for -inf.
lt_zero(x) == x.k # "nan" /\ x.v < 0

\* A str is the sequence of its characters; set(str) is the set of them.
chars(s) == {s[i] : i \in DOMAIN s}

\* np.where(mask)[0]: the 0-based positions of the true cells, ascending.
RECURSIVE np_where_upto(_, _)
np_where_upto(mask, n) ==
    IF n = 0 THEN <<>>
    ELSE IF mask[n] THEN Append(np_where_upto(mask, n - 1), n - 1)
         ELSE np_where_upto(mask, n - 1)

np_where(mask) == np_where_upto(mask, Len(mask))

\* DataFrame.duplicated('person_name'): a row is marked when an earlier row
\* carries the same person_name (keep='first').
duplicated(df) ==
    [i \in DOMAIN df |-> \E j \in 1..(i - 1) : df[j].person_name = df[i].person_name]

\* df['person_name'].unique() as a set.
person_names_of(df) == {df[i].person_name : i \in DOMAIN df}

(***************************************************************************)
(* Class constants and error messages                                      *)
(***************************************************************************)
\* string.ascii_lowercase alone, the '_' forgotten.
ascii_lowercase ==
    {"a", "b", "c", "d", "e", "f", "g", "h", "i", "j", "k", "l", "m",
     "n", "o", "p", "q", "r", "s", "t", "u", "v", "w", "x", "y", "z"}

ALLOWED_CHARACTERS ==
    {"a", "b", "c", "d", "e", "f", "g", "h", "i", "j", "k", "l", "m",
     "n", "o", "p", "q", "r", "s", "t", "u", "v", "w", "x", "y", "z", "_"}

ALLOWED_MODALITIES == {"written", "pronounced"}

\* ValueError(MESSAGE.format(...)): the message template and what fills it.
ValueError(message, arg) == [message |-> message, arg |-> arg]

MSG_PERSON_NAME == "Invalid person name ({person_name})"
MSG_SHOT == "Invalid shot ({corpus_id} {video_id} {shot_id})"
MSG_CONFIDENCE == "Incorrect confidence in submission at line {line:d}"
MSG_VIDEO == "Invalid video ({corpus_id} {video_id}) in evidence."
MSG_DUPLICATE == "Duplicate person name in evidence ({person_name})"
MSG_EXTRA == "Extra person name in evidence ({person_name})"
MSG_MISSING == "Missing person name in evidence ({person_name})"
MSG_MODALITY == "Incorrect modality in evidence ({modality})"
MSG_TIMESTAMP == "Incorrect timestamp in evidence at line {line:d}"
MSG_NEGATIVE == "Negative timestamp in evidence at line {line:d}"

NoError == [message |-> "", arg |-> <<>>]

\* What one check did: whether it raised, the error, and the engine's
\* reference set once the check is over.
Passed(ref) == [raised |-> FALSE, error |-> NoError, self_ref |-> ref]
Failed(e, ref) == [raised |-> TRUE, error |-> e, self_ref |-> ref]

(***************************************************************************)
(* The checks.  Each operator gives the set of ValueErrors the method may  *)
(* raise on a dataset (one per element an unordered set may yield first);  *)
(* the empty set means the method returns.  The two membership checks,     *)
(* which compute on the engine's reference set, give outcomes instead.     *)
(***************************************************************************)
\* __submission_person_names: a name of the submission with a character
\* outside ALLOWED_CHARACTERS is reported.
submission_person_names(submission) ==
    LET person_names == person_names_of(submission)
    IN  {ValueError(MSG_PERSON_NAME, person_name) :
            person_name \in {p \in person_names :
                                ~(chars(p) \subseteq ALLOWED_CHARACTERS)}}

\* The difference taken the wrong way round: self.shots_ - shots.
submission_shots_reversed_difference(submission, shots_) ==
    LET shots == {<<submission[i].corpus_id, submission[i].video_id,
                    submission[i].shot_id>> : i \in DOMAIN submission}
        invalid_shots == shots_ \ shots
    IN  IF invalid_shots # {}
        THEN {Failed(ValueError(MSG_SHOT, t), shots_) : t \in invalid_shots}
        ELSE {Passed(shots_)}

\* __submission_shots: `shots - self.shots_` is a new set, and pop() takes
\* an arbitrary element of that new set; self.shots_ is only read.
submission_shots(submission, shots_) ==
    LET shots == {<<submission[i].corpus_id, submission[i].video_id,
                    submission[i].shot_id>> : i \in DOMAIN submission}
        invalid_shots == shots \ shots_
    IN  IF invalid_shots # {}
        THEN {Failed(ValueError(MSG_SHOT, t), shots_) : t \in invalid_shots}
        ELSE {Passed(shots_)}

\* __submission_confidence: the first non-finite confidence, 1-indexed.
submission_confidence(submission) ==
    LET confidence == [i \in DOMAIN submission |-> submission[i].confidence]
        not_finite == np_where([i \in DOMAIN confidence |->
                                    ~isfinite(confidence[i])])
    IN  IF Len(not_finite) # 0
        THEN {ValueError(MSG_CONFIDENCE, not_finite[1] + 1)}
        ELSE {}

\* The videos seen are taken out of self.videos_ itself (an in-place
\* difference_update on the engine's set instead of a new set).
evidence_videos_in_place(evidence, videos_) ==
    LET videos == {<<evidence[i].corpus_id, evidence[i].video_id>> :
                      i \in DOMAIN evidence}
        invalid_videos == videos \ videos_
    IN  IF invalid_videos # {}
        THEN {Failed(ValueError(MSG_VIDEO, v), videos_ \ videos) :
                 v \in invalid_videos}
        ELSE {Passed(videos_ \ videos)}

\* __evidence_videos: as __submission_shots, on (corpus, video) pairs.
evidence_videos(evidence, videos_) ==
    LET videos == {<<evidence[i].corpus_id, evidence[i].video_id>> :
                      i \in DOMAIN evidence}
        invalid_videos == videos \ videos_
    IN  IF invalid_videos # {}
        THEN {Failed(ValueError(MSG_VIDEO, v), videos_) : v \in invalid_videos}
        ELSE {Passed(videos_)}

\* The negative test forgotten.
evidence_timestamps_finiteness_only(evidence) ==
    LET timestamps == [i \in DOMAIN evidence |-> evidence[i].timestamp]
        not_finite == np_where([i \in DOMAIN timestamps |->
                                    ~isfinite(timestamps[i])])
    IN  IF Len(not_finite) # 0
        THEN {ValueError(MSG_TIMESTAMP, not_finite[1] + 1)}
        ELSE {}

\* The two tests swapped: negative timestamps first, then non-finite ones.
evidence_timestamps_negative_first(evidence) ==
    LET timestamps == [i \in DOMAIN evidence |-> evidence[i].timestamp]
        not_finite == np_where([i \in DOMAIN timestamps |->
                                    ~isfinite(timestamps[i])])
        negative == np_where([i \in DOMAIN timestamps |->
                                    lt_zero(timestamps[i])])
    IN  IF Len(negative) # 0
        THEN {ValueError(MSG_NEGATIVE, negative[1] + 1)}
        ELSE IF Len(not_finite) # 0
             THEN {ValueError(MSG_TIMESTAMP, not_finite[1] + 1)}
             ELSE {}

\* __evidence_timestamps: non-finite timestamps first, then negative ones.
evidence_timestamps(evidence) ==
    LET timestamps == [i \in DOMAIN evidence |-> evidence[i].timestamp]
        not_finite == np_where([i \in DOMAIN timestamps |->
                                    ~isfinite(timestamps[i])])
        negative == np_where([i \in DOMAIN timestamps |->
                                    lt_zero(timestamps[i])])
    IN  IF Len(not_finite) # 0
        THEN {ValueError(MSG_TIMESTAMP, not_finite[1] + 1)}
        ELSE IF Len(negative) # 0
             THEN {ValueError(MSG_NEGATIVE, negative[1] + 1)}
             ELSE {}

\* The last two tests swapped: duplicates, then missing names, then extra.
evidence_person_names_missing_first(submission, evidence) ==
    LET dup == duplicated(evidence)
        duplicate_names == {evidence[i].person_name :
                               i \in {j \in DOMAIN evidence : dup[j]}}
        submission_person_names_ == person_names_of(submission)
        evidence_person_names_ == person_names_of(evidence)
        extra == evidence_person_names_ \ submission_person_names_
        missing == submission_person_names_ \ evidence_person_names_
    IN  IF \E i \in DOMAIN dup : dup[i]
        THEN {ValueError(MSG_DUPLICATE, n) : n \in duplicate_names}
        ELSE IF missing # {}
             THEN {ValueError(MSG_MISSING, n) : n \in missing}
             ELSE IF extra # {}
                  THEN {ValueError(MSG_EXTRA, n) : n \in extra}
                  ELSE {}

\* __evidence_person_names: duplicates, then extra names, then missing names.
evidence_person_names(submission, evidence) ==
    LET dup == duplicated(evidence)
        duplicate_names == {evidence[i].person_name :
                               i \in {j \in DOMAIN evidence : dup[j]}}
        submission_person_names_ == person_names_of(submission)
        evidence_person_names_ == person_names_of(evidence)
        extra == evidence_person_names_ \ submission_person_names_
        missing == submission_person_names_ \ evidence_person_names_
    IN  IF \E i \in DOMAIN dup : dup[i]
        THEN {ValueError(MSG_DUPLICATE, n) : n \in duplicate_names}
        ELSE IF extra # {}
             THEN {ValueError(MSG_EXTRA, n) : n \in extra}
             ELSE IF missing # {}
                  THEN {ValueError(MSG_MISSING, n) : n \in missing}
                  ELSE {}

\* pop() on the whole modality set instead of the offending ones.
evidence_modalities_pops_any(evidence) ==
    LET modalities == {evidence[i].modality : i \in DOMAIN evidence}
    IN  IF ~(modalities \subseteq ALLOWED_MODALITIES)
        THEN {ValueError(MSG_MODALITY, m) : m \in modalities}
        ELSE {}

\* __evidence_modalities: a modality outside {'written', 'pronounced'}.
evidence_modalities(evidence) ==
    LET modalities == {evidence[i].modality : i \in DOMAIN evidence}
    IN  IF ~(modalities \subseteq ALLOWED_MODALITIES)
        THEN {ValueError(MSG_MODALITY, m) :
                 m \in modalities \ ALLOWED_MODALITIES}
        ELSE {}

(***************************************************************************)
(* State                                                                   *)
(***************************************************************************)
VARIABLES
    shots,          \* self.shots: the shot list path, or None
    shots_,         \* self.shots_: the Reference Shot Set ({} when never built)
    videos,         \* self.videos: the video list path, or None
    videos_,        \* self.videos_: the Reference Video Set ({} when never built)
    built_shots,    \* the set _load_shots returned at construction
    built_videos,   \* the set _load_videos returned at construction
    fp_evidence,    \* the evidence source of the running call, or None
    submission,     \* the loaded Submission Dataset (<<>> before loading)
    evidence,       \* the loaded Evidence Dataset (<<>> before loading)
    pc,             \* position of the running call inside __call__
    result,         \* "" while running, "True" or "ValueError" once over
    error,          \* the ValueError raised, NoError otherwise
    executed,       \* the check methods the running call has entered, in order
    called          \* whether a call on this engine is already over

vars == <<shots, shots_, videos, videos_, built_shots, built_videos,
          fp_evidence, submission, evidence, pc, result, error, executed,
          called>>

engine == <<shots, shots_, videos, videos_, built_shots, built_videos, called>>

(***************************************************************************)
(* Input universes                                                         *)
(***************************************************************************)
alice == <<"a", "l", "i", "c", "e">>
bob == <<"b", "o", "b">>
carol == <<"c", "a", "r", "o", "l">>
j_doe == <<"j", "_", "d", "o", "e">>
Jean_Paul == <<"J", "e", "a", "n", "-", "P", "a", "u", "l">>
bob2 == <<"b", "o", "b", "2">>

\* Datasets of 1..MaxRows rows over a row universe (pandas refuses an empty
\* file, so a loaded dataset has at least one row).
Datasets(Rows) == UNION {[1..n -> Rows] : n \in 1..MaxRows}

SubmissionRows(ShotIds, Names, Confidences) ==
    [corpus_id : {"C1"}, video_id : {"V1"}, shot_id : ShotIds,
     person_name : Names, confidence : Confidences]

EvidenceRows(Names, VideoIds, Modalities, Timestamps) ==
    [person_name : Names, corpus_id : {"C1"}, video_id : VideoIds,
     modality : Modalities, timestamp : Timestamps]

(***************************************************************************)
(* Construction                                                            *)
(***************************************************************************)
\* Validation.__init__: a reference set is built only for a path given.
Construct(ShotLists, VideoLists) ==
    /\ shots \in {None, "shots.lst"}
    /\ shots_ \in (IF Truthy(shots) THEN ShotLists ELSE {{}})
    /\ videos \in {None, "videos.lst"}
    /\ videos_ \in (IF Truthy(videos) THEN VideoLists ELSE {{}})
    /\ built_shots = shots_
    /\ built_videos = videos_
    /\ fp_evidence = None
    /\ submission = <<>>
    /\ evidence = <<>>
    /\ pc = "idle"
    /\ result = ""
    /\ error = NoError
    /\ executed = <<>>
    /\ called = FALSE

(***************************************************************************)
(* __call__, one action per statement                                      *)
(***************************************************************************)
Raise(e) == pc' = "raised" /\ result' = "ValueError" /\ error' = e

Goto(label) == pc' = label /\ UNCHANGED <<result, error>>

Enter(check) == executed' = Append(executed, check)

\* A mis-ordered __call__: the confidence is validated before the shots.
after_confidence_before_shots(statement) ==
    CASE statement = "submission_person_names" -> "submission_confidence"
      [] statement = "submission_confidence" -> "submission_shots"
      [] statement = "submission_shots" ->
            IF Truthy(fp_evidence) THEN "load_evidence" ELSE "return"
      [] statement = "load_evidence" -> "evidence_videos"
      [] statement = "evidence_videos" -> "evidence_timestamps"
      [] statement = "evidence_timestamps" -> "evidence_person_names"
      [] statement = "evidence_person_names" -> "evidence_modalities"
      [] statement = "evidence_modalities" -> "return"

\* The statement of __call__ that follows `statement` when it does not raise.
after(statement) ==
    CASE statement = "submission_person_names" -> "submission_shots"
      [] statement = "submission_shots" -> "submission_confidence"
      [] statement = "submission_confidence" ->
            IF Truthy(fp_evidence) THEN "load_evidence" ELSE "return"
      [] statement = "load_evidence" -> "evidence_videos"
      [] statement = "evidence_videos" -> "evidence_timestamps"
      [] statement = "evidence_timestamps" -> "evidence_person_names"
      [] statement = "evidence_person_names" -> "evidence_modalities"
      [] statement = "evidence_modalities" -> "return"

\* A check that only reads the datasets: raise one of its errors, or go on.
RunCheck(check, errors) ==
    /\ Enter(check)
    /\ IF errors # {} THEN \E e \in errors : Raise(e) ELSE Goto(after(check))

\* __call__ is entered and the submission is loaded.
Call(Submissions, Sources) ==
    /\ pc = "idle"
    /\ submission' \in Submissions
    /\ fp_evidence' \in Sources
    /\ pc' = "submission_person_names"
    /\ UNCHANGED <<engine, evidence, result, error, executed>>

SubmissionPersonNames ==
    /\ pc = "submission_person_names"
    /\ RunCheck("submission_person_names", submission_person_names(submission))
    /\ UNCHANGED <<engine, fp_evidence, submission, evidence>>

\* The shot check without its `if self.shots:` gate.
SubmissionShots_ungated ==
    /\ pc = "submission_shots"
    /\ Enter("submission_shots")
    /\ \E o \in submission_shots(submission, shots_) :
         /\ shots_' = o.self_ref
         /\ IF o.raised THEN Raise(o.error)
            ELSE Goto(after("submission_shots"))
    /\ UNCHANGED <<shots, videos, videos_, built_shots, built_videos, called,
                   fp_evidence, submission, evidence>>

SubmissionShots ==
    /\ pc = "submission_shots"
    /\ IF Truthy(shots)
       THEN /\ Enter("submission_shots")
            /\ \E o \in submission_shots(submission, shots_) :
                 /\ shots_' = o.self_ref
                 /\ IF o.raised THEN Raise(o.error)
                    ELSE Goto(after("submission_shots"))
       ELSE /\ Goto(after("submission_shots"))
            /\ UNCHANGED <<shots_, executed>>
    /\ UNCHANGED <<shots, videos, videos_, built_shots, built_videos, called,
                   fp_evidence, submission, evidence>>

SubmissionConfidence ==
    /\ pc = "submission_confidence"
    /\ RunCheck("submission_confidence", submission_confidence(submission))
    /\ UNCHANGED <<engine, fp_evidence, submission, evidence>>

LoadEvidence(Evidences) ==
    /\ pc = "load_evidence"
    /\ evidence' \in Evidences
    /\ Goto(after("load_evidence"))
    /\ UNCHANGED <<engine, fp_evidence, submission, executed>>

EvidenceVideos ==
    /\ pc = "evidence_videos"
    /\ IF Truthy(videos)
       THEN /\ Enter("evidence_videos")
            /\ \E o \in evidence_videos(evidence, videos_) :
                 /\ videos_' = o.self_ref
                 /\ IF o.raised THEN Raise(o.error)
                    ELSE Goto(after("evidence_videos"))
       ELSE /\ Goto(after("evidence_videos"))
            /\ UNCHANGED <<videos_, executed>>
    /\ UNCHANGED <<shots, shots_, videos, built_shots, built_videos, called,
                   fp_evidence, submission, evidence>>

EvidenceTimestamps ==
    /\ pc = "evidence_timestamps"
    /\ RunCheck("evidence_timestamps", evidence_timestamps(evidence))
    /\ UNCHANGED <<engine, fp_evidence, submission, evidence>>

EvidencePersonNames ==
    /\ pc = "evidence_person_names"
    /\ RunCheck("evidence_person_names",
                evidence_person_names(submission, evidence))
    /\ UNCHANGED <<engine, fp_evidence, submission, evidence>>

EvidenceModalities ==
    /\ pc = "evidence_modalities"
    /\ RunCheck("evidence_modalities", evidence_modalities(evidence))
    /\ UNCHANGED <<engine, fp_evidence, submission, evidence>>

\* `return True`
Return ==
    /\ pc = "return"
    /\ pc' = "returned"
    /\ result' = "True"
    /\ UNCHANGED <<engine, fp_evidence, submission, evidence, error, executed>>

\* The call is over (returned or raised): its datasets are dropped and the
\* engine is ready for the next call.
Exit ==
    /\ pc \in {"returned", "raised"}
    /\ pc' = "idle"
    /\ fp_evidence' = None
    /\ submission' = <<>>
    /\ evidence' = <<>>
    /\ result' = ""
    /\ error' = NoError
    /\ executed' = <<>>
    /\ called' = TRUE
    /\ UNCHANGED <<shots, shots_, videos, videos_, built_shots, built_videos>>

(***************************************************************************)
(* Specifications                                                          *)
(***************************************************************************)
S1 == <<"C1", "V1", "S1">>
S2 == <<"C1", "V1", "S2">>
V1 == <<"C1", "V1">>
V2 == <<"C1", "V2">>

\* End-to-end: every check can pass or fail, alone or together with others.
FullSubmissions ==
    Datasets(SubmissionRows({"S1", "S2"}, {alice, Jean_Paul}, {Fin(1), NaN}))

FullEvidences ==
    Datasets(EvidenceRows({alice, bob}, {"V1", "V2"}, {"written", "spoken"},
                          {Fin(1), Fin(-1), NaN}))

Init == Construct({{S1}}, {{V1}})

Next ==
    \/ Call(FullSubmissions, {None, "evidence.txt"})
    \/ SubmissionPersonNames
    \/ SubmissionShots
    \/ SubmissionConfidence
    \/ LoadEvidence(FullEvidences)
    \/ EvidenceVideos
    \/ EvidenceTimestamps
    \/ EvidencePersonNames
    \/ EvidenceModalities
    \/ Return
    \/ Exit

Spec == Init /\ [][Next]_vars

\* Submission checks alone: no evidence source, every kind of name, shot
\* and confidence.
S3 == <<"C1", "V1", "S3">>

CheckedSubmissions ==
    Datasets(SubmissionRows({"S1", "S2", "S3"},
                            {alice, j_doe, Jean_Paul, bob2},
                            {Fin(1), NaN, PosInf, NegInf}))

InitSubmission == Construct({{S1}, {S1, S2}}, {{V1}}) /\ videos = None

NextSubmission ==
    \/ Call(CheckedSubmissions, {None})
    \/ SubmissionPersonNames
    \/ SubmissionShots
    \/ SubmissionConfidence
    \/ Return
    \/ Exit

SpecSubmission == InitSubmission /\ [][NextSubmission]_vars

\* Evidence checks alone: submissions that pass, every kind of evidence
\* name, modality and timestamp.
AcceptedRow(name) ==
    [corpus_id |-> "C1", video_id |-> "V1", shot_id |-> "S1",
     person_name |-> name, confidence |-> Fin(1)]

AcceptedSubmissions ==
    {<<AcceptedRow(alice)>>, <<AcceptedRow(alice), AcceptedRow(bob)>>}

CheckedEvidences ==
    Datasets(EvidenceRows({alice, bob, carol}, {"V1"},
                          {"written", "pronounced", "spoken"},
                          {Fin(0), Fin(-1), NaN, PosInf, NegInf}))

InitEvidence == Construct({{S1}}, {{V1}}) /\ shots = None /\ videos = None

NextEvidence ==
    \/ Call(AcceptedSubmissions, {"evidence.txt"})
    \/ SubmissionPersonNames
    \/ SubmissionShots
    \/ SubmissionConfidence
    \/ LoadEvidence(CheckedEvidences)
    \/ EvidenceVideos
    \/ EvidenceTimestamps
    \/ EvidencePersonNames
    \/ EvidenceModalities
    \/ Return
    \/ Exit

SpecEvidence == InitEvidence /\ [][NextEvidence]_vars

(***************************************************************************)
(* Vocabulary of the properties                                            *)
(***************************************************************************)
Min(S) == CHOOSE x \in S : \A y \in S : x <= y

Over == pc \in {"returned", "raised"}

\* The running call's last entered check is `check`, and that check is over
\* (it raised, or the call has moved on).
JustRan(check) ==
    /\ Len(executed) > 0
    /\ executed[Len(executed)] = check
    /\ pc # check

RaisedWith(message) == pc = "raised" /\ error.message = message

LowercaseOrUnderscore ==
    {"a", "b", "c", "d", "e", "f", "g", "h", "i", "j", "k", "l", "m",
     "n", "o", "p", "q", "r", "s", "t", "u", "v", "w", "x", "y", "z", "_"}

WellFormedName(name) == \A k \in DOMAIN name : name[k] \in LowercaseOrUnderscore

NonFinite(x) == x \in {NaN, PosInf, NegInf}

Triples(sub) ==
    {<<sub[i].corpus_id, sub[i].video_id, sub[i].shot_id>> : i \in DOMAIN sub}

Pairs(ev) == {<<ev[i].corpus_id, ev[i].video_id>> : i \in DOMAIN ev}

Names(df) == {df[i].person_name : i \in DOMAIN df}

Modalities(ev) == {ev[i].modality : i \in DOMAIN ev}

Occurrences(ev, name) == Cardinality({i \in DOMAIN ev : ev[i].person_name = name})

RepeatedNames(ev) == {n \in Names(ev) : Occurrences(ev, n) > 1}

NonFiniteConfidences(sub) == {i \in DOMAIN sub : NonFinite(sub[i].confidence)}

NonFiniteTimestamps(ev) == {i \in DOMAIN ev : NonFinite(ev[i].timestamp)}

NegativeTimestamps(ev) ==
    {i \in DOMAIN ev : ev[i].timestamp.k = "fin" /\ ev[i].timestamp.v < 0}

\* The seven checks in the order of the specification, and the messages of
\* each.
CheckOrder ==
    <<"submission_person_names", "submission_shots", "submission_confidence",
      "evidence_videos", "evidence_timestamps", "evidence_person_names",
      "evidence_modalities">>

CheckOf(message) ==
    CASE message = MSG_PERSON_NAME -> "submission_person_names"
      [] message = MSG_SHOT -> "submission_shots"
      [] message = MSG_CONFIDENCE -> "submission_confidence"
      [] message = MSG_VIDEO -> "evidence_videos"
      [] message \in {MSG_TIMESTAMP, MSG_NEGATIVE} -> "evidence_timestamps"
      [] message \in {MSG_DUPLICATE, MSG_EXTRA, MSG_MISSING} ->
            "evidence_person_names"
      [] message = MSG_MODALITY -> "evidence_modalities"
      [] OTHER -> "none"

Position(check) == CHOOSE i \in DOMAIN CheckOrder : CheckOrder[i] = check

\* Check `check` applies to the running call and its input violates it, the
\* reference sets being refShots and refVideos.
Violates(check, refShots, refVideos) ==
    CASE check = "submission_person_names" ->
            \E n \in Names(submission) : ~WellFormedName(n)
      [] check = "submission_shots" ->
            shots # None /\ ~(Triples(submission) \subseteq refShots)
      [] check = "submission_confidence" ->
            NonFiniteConfidences(submission) # {}
      [] check = "evidence_videos" ->
            /\ fp_evidence # None
            /\ videos # None
            /\ ~(Pairs(evidence) \subseteq refVideos)
      [] check = "evidence_timestamps" ->
            /\ fp_evidence # None
            /\ NonFiniteTimestamps(evidence) \cup NegativeTimestamps(evidence) # {}
      [] check = "evidence_person_names" ->
            /\ fp_evidence # None
            /\ \/ RepeatedNames(evidence) # {}
               \/ Names(evidence) # Names(submission)
      [] check = "evidence_modalities" ->
            /\ fp_evidence # None
            /\ ~(Modalities(evidence) \subseteq {"written", "pronounced"})

ViolatedChecks(refShots, refVideos) ==
    {i \in DOMAIN CheckOrder : Violates(CheckOrder[i], refShots, refVideos)}

(***************************************************************************)
(* C1: a call returns True exactly when every applicable check passes      *)
(* (names, shots when a shot list is configured, confidences and, with an  *)
(* evidence source, videos when a video list is configured, timestamps,    *)
(* the name cross-check and modalities); otherwise it raises and returns   *)
(* nothing.  With no evidence and no reference lists the result depends    *)
(* on the submission's names and confidences only.                         *)
(***************************************************************************)
C1_ReturnsTrueIffAllChecksPass ==
    Over =>
        /\ result \in {"True", "ValueError"}
        /\ (result = "True") <=> (ViolatedChecks(shots_, videos_) = {})
        /\ (result = "True") <=> (pc = "returned" /\ error.message = "")
        /\ (result = "ValueError") <=> (pc = "raised" /\ error.message # "")
        /\ (fp_evidence = None /\ shots = None /\ videos = None) =>
              ((result = "True") <=>
                  /\ \A n \in Names(submission) : WellFormedName(n)
                  /\ \A i \in DOMAIN submission :
                        ~NonFinite(submission[i].confidence))

C1_Witness ==
    /\ pc = "returned"
    /\ result = "True"
    /\ fp_evidence # None
    /\ shots # None
    /\ videos # None
    /\ Len(submission) = 2
    /\ Len(evidence) = 1

(***************************************************************************)
(* C2: the checks run in the fixed order names, shots, confidence, videos, *)
(* timestamps, name cross-check, modality; the error raised is that of the *)
(* earliest violated check, and no later check is run.                     *)
(***************************************************************************)
C2_FirstViolatedCheckRaises ==
    /\ \A i, j \in DOMAIN executed :
          i < j => Position(executed[i]) < Position(executed[j])
    /\ pc = "raised" =>
          LET violated == ViolatedChecks(shots_, videos_)
          IN  /\ violated # {}
              /\ CheckOf(error.message) = CheckOrder[Min(violated)]
              /\ executed[Len(executed)] = CheckOrder[Min(violated)]
              /\ \A k \in DOMAIN CheckOrder :
                    k > Min(violated) =>
                        \A i \in DOMAIN executed : executed[i] # CheckOrder[k]

C2_Witness ==
    /\ pc = "raised"
    /\ fp_evidence # None
    /\ Violates("submission_person_names", shots_, videos_)
    /\ Violates("submission_shots", shots_, videos_)
    /\ Violates("submission_confidence", shots_, videos_)
    /\ error.message = MSG_PERSON_NAME
    /\ executed = <<"submission_person_names">>

(***************************************************************************)
(* C3: an engine built without a shot list never raises 'Invalid shot',    *)
(* and one built without a video list never raises 'Invalid video',        *)
(* whatever the datasets reference; each gate is independent of the other. *)
(***************************************************************************)
C3_AbsentListsRestrictNothing ==
    /\ shots = None =>
          /\ error.message # MSG_SHOT
          /\ \A i \in DOMAIN executed : executed[i] # "submission_shots"
    /\ videos = None =>
          /\ error.message # MSG_VIDEO
          /\ \A i \in DOMAIN executed : executed[i] # "evidence_videos"

\* No shot list but a video list: a shot outside every list goes through,
\* and the video restriction still applies.
C3_Witness ==
    /\ shots = None
    /\ videos # None
    /\ S2 \in Triples(submission)
    /\ RaisedWith(MSG_VIDEO)
    /\ error.arg = V2

(***************************************************************************)
(* C4: with a Reference Shot Set, the shot membership check fails exactly  *)
(* when some triple of the submission is outside the set, and the triple   *)
(* reported occurs in the submission and is absent from the set.           *)
(***************************************************************************)
C4_ShotMembership ==
    JustRan("submission_shots") =>
        LET absent == Triples(submission) \ shots_
        IN  /\ shots # None
            /\ (pc = "raised") <=> (absent # {})
            /\ pc = "raised" => error.message = MSG_SHOT /\ error.arg \in absent
            /\ pc # "raised" => Triples(submission) \subseteq shots_

\* Reference set {S1}; rows on S1 and S2: S2 is reported.
C4_Witness ==
    /\ JustRan("submission_shots")
    /\ shots_ = {S1}
    /\ Triples(submission) = {S1, S2}
    /\ RaisedWith(MSG_SHOT)
    /\ error.arg = S2

(***************************************************************************)
(* C5: the confidence check fails exactly when some row has a NaN or       *)
(* infinite confidence, and reports the 1-indexed position of the first    *)
(* such row.                                                               *)
(***************************************************************************)
C5_ConfidenceFiniteness ==
    JustRan("submission_confidence") =>
        LET bad == NonFiniteConfidences(submission)
        IN  /\ (pc = "raised") <=> (bad # {})
            /\ pc = "raised" =>
                  error.message = MSG_CONFIDENCE /\ error.arg = Min(bad)

\* A finite first row, then an infinite one: line 2 is reported.
C5_Witness ==
    /\ JustRan("submission_confidence")
    /\ Len(submission) >= 2
    /\ submission[1].confidence = Fin(1)
    /\ submission[2].confidence = PosInf
    /\ RaisedWith(MSG_CONFIDENCE)
    /\ error.arg = 2

(***************************************************************************)
(* C6: the timestamp check decides finiteness over the whole evidence      *)
(* before negativity: a non-finite timestamp anywhere gives the non-finite *)
(* error with the line of the first non-finite row, even after a negative  *)
(* row; only when all are finite is the negative error raised, with the    *)
(* line of the first negative row.  -Infinity counts as non-finite.        *)
(***************************************************************************)
C6_TimestampValidity ==
    JustRan("evidence_timestamps") =>
        LET nonfinite == NonFiniteTimestamps(evidence)
            negative == NegativeTimestamps(evidence)
        IN  /\ nonfinite # {} =>
                  /\ RaisedWith(MSG_TIMESTAMP)
                  /\ error.arg = Min(nonfinite)
            /\ (nonfinite = {} /\ negative # {}) =>
                  /\ RaisedWith(MSG_NEGATIVE)
                  /\ error.arg = Min(negative)
            /\ (nonfinite = {} /\ negative = {}) => pc # "raised"

\* A negative row before a -Infinity row: the non-finite error, line 2.
C6_Witness ==
    /\ JustRan("evidence_timestamps")
    /\ Len(evidence) = 2
    /\ evidence[1].timestamp = Fin(-1)
    /\ evidence[2].timestamp = NegInf
    /\ RaisedWith(MSG_TIMESTAMP)
    /\ error.arg = 2

(***************************************************************************)
(* C7: the name cross-check fails as duplicate when a name occurs in more  *)
(* than one evidence row, otherwise as extra when an evidence name is not  *)
(* a submission name, otherwise as missing when a submission name is not   *)
(* an evidence name, each time reporting such a name; it passes exactly    *)
(* when evidence names are pairwise distinct and the two name sets agree.  *)
(***************************************************************************)
C7_PersonNameCrossCheck ==
    JustRan("evidence_person_names") =>
        LET repeated == RepeatedNames(evidence)
            extra == Names(evidence) \ Names(submission)
            missing == Names(submission) \ Names(evidence)
        IN  /\ repeated # {} =>
                  RaisedWith(MSG_DUPLICATE) /\ error.arg \in repeated
            /\ (repeated = {} /\ extra # {}) =>
                  RaisedWith(MSG_EXTRA) /\ error.arg \in extra
            /\ (repeated = {} /\ extra = {} /\ missing # {}) =>
                  RaisedWith(MSG_MISSING) /\ error.arg \in missing
            /\ (pc # "raised") <=>
                  /\ \A i, j \in DOMAIN evidence :
                        i # j => evidence[i].person_name # evidence[j].person_name
                  /\ Names(evidence) = Names(submission)

\* A repeated name that is also extra, with submission names missing: the
\* duplicate is what is reported.
C7_Witness ==
    /\ JustRan("evidence_person_names")
    /\ Names(submission) = {alice, bob}
    /\ Names(evidence) = {carol}
    /\ Len(evidence) = 2
    /\ RaisedWith(MSG_DUPLICATE)
    /\ error.arg = carol

(***************************************************************************)
(* C8: the modality check fails exactly when the evidence uses a modality  *)
(* other than "written" and "pronounced", and reports such a modality.     *)
(***************************************************************************)
C8_ModalityCheck ==
    JustRan("evidence_modalities") =>
        LET offending == Modalities(evidence) \ {"written", "pronounced"}
        IN  /\ (pc = "raised") <=> (offending # {})
            /\ pc = "raised" =>
                  error.message = MSG_MODALITY /\ error.arg \in offending

C8_Witness ==
    /\ JustRan("evidence_modalities")
    /\ Modalities(evidence) = {"written", "spoken"}
    /\ RaisedWith(MSG_MODALITY)
    /\ error.arg = "spoken"

(***************************************************************************)
(* C9: the alphabet check passes exactly when every person name of the     *)
(* submission is made of a-z and _ only, and the name it reports is a      *)
(* submission name with a character outside that alphabet.                 *)
(***************************************************************************)
C9_PersonNameAlphabet ==
    JustRan("submission_person_names") =>
        /\ (pc # "raised") <=> (\A n \in Names(submission) : WellFormedName(n))
        /\ pc = "raised" =>
              /\ error.message = MSG_PERSON_NAME
              /\ error.arg \in Names(submission)
              /\ ~WellFormedName(error.arg)

C9_Witness ==
    /\ JustRan("submission_person_names")
    /\ Names(submission) = {j_doe, Jean_Paul}
    /\ RaisedWith(MSG_PERSON_NAME)
    /\ error.arg = Jean_Paul

(***************************************************************************)
(* C10: whatever calls were made on an engine and however they ended, its  *)
(* Reference Shot Set and Reference Video Set are the sets built at        *)
(* construction, so the outcome of a call (True, or the check that failed) *)
(* is decided by that call's inputs and the construction-time sets.        *)
(***************************************************************************)
C10_ReferenceSetsFrozen ==
    /\ shots_ = built_shots
    /\ videos_ = built_videos
    /\ Over =>
          LET violated == ViolatedChecks(built_shots, built_videos)
          IN  IF violated = {}
              THEN result = "True"
              ELSE /\ result = "ValueError"
                   /\ CheckOf(error.message) = CheckOrder[Min(violated)]

\* A later call on an engine with both lists, ending on the video set's
\* pop() after the shot check passed.
C10_Witness ==
    /\ called
    /\ shots # None
    /\ RaisedWith(MSG_VIDEO)
    /\ shots_ = {S1}
    /\ videos_ = {V1}

=============================================================================
